---- MODULE Spec2Model ----
(***************************************************************************)
(* ArgoCD destination API: the read-modify-write core of argocd/client.go  *)
(* (GetDestinations, AddDestination, RemoveDestination, patchDestinations, *)
(* extractDestinations), the request handlers of handlers/destinations.go, *)
(* the API key middleware and the audit logger, run against a Kubernetes   *)
(* style store that checks metadata.resourceVersion on every patch.        *)
(***************************************************************************)
EXTENDS Integers, Sequences, FiniteSets, TLC

\* ------------------------------------------------------------------------
\* Bounds of the model
\* ------------------------------------------------------------------------

\* requests received by the handlers in one behaviour, repeats of a request
\* by its caller not counted
MaxRequests == 2

\* writes made to the store by writers other than this service
MaxExternal == 1

\* ------------------------------------------------------------------------
\* Values
\* ------------------------------------------------------------------------

\* concurrently running request handlers (goroutines of the HTTP server)
Procs == {1, 2}

\* a raw field that is absent or is not a JSON string
NoStr == "~"

\* project names are character sequences, so that the name pattern is computed
P1 == <<"p", "1">>
P2 == <<"q">>
BadName == <<"p", "/">>
EmptyName == <<>>

\* project names that requests ask for
StoreNames == {P1, P2}

\* characters accepted by projectNameRegex
NameChars == {"p", "q", "1", "-", "_"}

\* the API key the server was started with
ConfiguredKey == "k"

DA == [server |-> "a", namespace |-> "ns1", name |-> ""]
DAx == [server |-> "a", namespace |-> "ns1", name |-> "x"]
DB == [server |-> "b", namespace |-> "ns2", name |-> ""]

\* argocd.Destination values used by requests
Dests == {DA, DAx, DB}

NoDest == [server |-> "", namespace |-> "", name |-> ""]

\* ------------------------------------------------------------------------
\* Raw representation of spec.destinations in the store
\* ------------------------------------------------------------------------

\* an element of the raw list that is not a JSON object
Junk == [junk |-> TRUE, server |-> NoStr, namespace |-> NoStr, name |-> NoStr]

\* json.Marshal of a Destination whose Name field is never written
EncodeDestNoName(d) ==
  [junk |-> FALSE, server |-> d.server, namespace |-> d.namespace,
   name |-> NoStr]

\* json.Marshal of a Destination: name is omitted when empty
EncodeDest(d) ==
  [junk |-> FALSE, server |-> d.server, namespace |-> d.namespace,
   name |-> IF d.name = "" THEN NoStr ELSE d.name]

\* json.Marshal of a non-nil []Destination
EncodeList(ds) == [i \in 1..Len(ds) |-> EncodeDest(ds[i])]

StrOrEmpty(v) == IF v = NoStr THEN "" ELSE v

\* the body of the loop of extractDestinations for one object element
DecodeDest(e) ==
  [server |-> StrOrEmpty(e.server), namespace |-> StrOrEmpty(e.namespace),
   name |-> StrOrEmpty(e.name)]

RECURSIVE DecodeListStop(_)
\* the loop of extractDestinations leaving the loop at the first element that
\* is not an object
DecodeListStop(raw) ==
  IF raw = <<>> THEN <<>>
  ELSE IF Head(raw).junk THEN <<>>
  ELSE <<DecodeDest(Head(raw))>> \o DecodeListStop(Tail(raw))

RECURSIVE DecodeList(_)
\* the loop of extractDestinations: elements that are not objects are skipped
DecodeList(raw) ==
  IF raw = <<>> THEN <<>>
  ELSE IF Head(raw).junk THEN DecodeList(Tail(raw))
  ELSE <<DecodeDest(Head(raw))>> \o DecodeList(Tail(raw))

\* a raw spec: spec is "absent", "bad" (not an object) or "map"; inside a map
\* destinations is "absent", "bad" (not an array) or "list"
RawSpec(s, d, l) == [spec |-> s, dests |-> d, list |-> l]

ListSpec(ds) == RawSpec("map", "list", EncodeList(ds))

\* extractDestinations
extractDestinations(obj) ==
  IF obj.spec = "bad" THEN [err |-> TRUE, dests |-> <<>>]
  ELSE IF obj.spec = "absent" THEN [err |-> FALSE, dests |-> <<>>]
  ELSE IF obj.dests = "bad" THEN [err |-> TRUE, dests |-> <<>>]
  ELSE IF obj.dests = "absent" THEN [err |-> FALSE, dests |-> <<>>]
  ELSE [err |-> FALSE, dests |-> DecodeList(obj.list)]

\* destinationsEqual comparing server and namespace only
destinationsEqualNoName(a, b) ==
  a.server = b.server /\ a.namespace = b.namespace

\* destinationsEqual
destinationsEqual(a, b) ==
  a.server = b.server /\ a.namespace = b.namespace /\ a.name = b.name

Contains(ds, d) == \E i \in 1..Len(ds) : destinationsEqual(ds[i], d)

RECURSIVE Without(_, _)
\* the loop of RemoveDestination
Without(ds, d) ==
  IF ds = <<>> THEN <<>>
  ELSE IF destinationsEqual(Head(ds), d) THEN Without(Tail(ds), d)
  ELSE <<Head(ds)>> \o Without(Tail(ds), d)


\* ------------------------------------------------------------------------
\* Client: the values computed between the GET and the PATCH
\* ------------------------------------------------------------------------

\* the resourceVersion of a patch that carries none
NoRV == 0

\* a Go slice: json.Marshal writes a nil slice as null
Slice(isNil, l) == [isNil |-> isNil, list |-> l]

\* AddDestination that patches the record with the new destination alone
AddComputeReplace(destinations, dest) ==
  IF Contains(destinations, dest)
  THEN [changed |-> FALSE, out |-> Slice(FALSE, destinations)]
  ELSE [changed |-> TRUE, out |-> Slice(FALSE, <<dest>>)]

\* AddDestination without the check for an existing destination
AddComputeAlways(destinations, dest) ==
  [changed |-> TRUE, out |-> Slice(FALSE, Append(destinations, dest))]

\* AddDestination that patches the fetched list without the new destination
AddComputeDrop(destinations, dest) ==
  IF Contains(destinations, dest)
  THEN [changed |-> FALSE, out |-> Slice(FALSE, destinations)]
  ELSE [changed |-> TRUE, out |-> Slice(FALSE, destinations)]

\* AddDestination that puts the new destination before the fetched ones
AddComputePrepend(destinations, dest) ==
  IF Contains(destinations, dest)
  THEN [changed |-> FALSE, out |-> Slice(FALSE, destinations)]
  ELSE [changed |-> TRUE, out |-> Slice(FALSE, <<dest>> \o destinations)]

\* AddDestination, lines 108-116: "changed" is false on the early return
AddCompute(destinations, dest) ==
  IF Contains(destinations, dest)
  THEN [changed |-> FALSE, out |-> Slice(FALSE, destinations)]
  ELSE [changed |-> TRUE, out |-> Slice(FALSE, Append(destinations, dest))]

RECURSIVE WithoutFirst(_, _)
\* the loop of RemoveDestination stopping to compare after the first match
WithoutFirst(ds, d) ==
  IF ds = <<>> THEN <<>>
  ELSE IF destinationsEqual(Head(ds), d) THEN Tail(ds)
  ELSE <<Head(ds)>> \o WithoutFirst(Tail(ds), d)

\* RemoveDestination that drops the first matching destination only
RemoveComputeFirst(destinations, dest) ==
  [changed |-> Contains(destinations, dest),
   out |-> Slice(WithoutFirst(destinations, dest) = <<>>,
                 WithoutFirst(destinations, dest))]

\* RemoveDestination without the early return when nothing was found
RemoveComputeAlways(destinations, dest) ==
  [changed |-> TRUE,
   out |-> Slice(Without(destinations, dest) = <<>>, Without(destinations, dest))]

\* RemoveDestination, lines 130-144: newDestinations stays nil when nothing
\* is kept
RemoveCompute(destinations, dest) ==
  [changed |-> Contains(destinations, dest),
   out |-> Slice(Without(destinations, dest) = <<>>, Without(destinations, dest))]

\* patchDestinations without metadata.resourceVersion in the patch
PatchBodyUnconditional(out, resourceVersion) ==
  [rv |-> NoRV, null |-> out.isNil,
   list |-> IF out.isNil THEN <<>> ELSE EncodeList(out.list)]

\* the merge patch built by patchDestinations
PatchBody(out, resourceVersion) ==
  [rv |-> resourceVersion, null |-> out.isNil,
   list |-> IF out.isNil THEN <<>> ELSE EncodeList(out.list)]

NoBody == [rv |-> NoRV, null |-> FALSE, list |-> <<>>]

\* a patch that merges the array into the stored one element by element
\* instead of replacing the field
ApplyMergePatchAppend(obj, body) ==
  IF body.null
  THEN RawSpec("map", "absent", <<>>)
  ELSE RawSpec("map", "list", obj.list \o body.list)

\* JSON merge patch of {"spec": {"destinations": ...}} onto the stored object:
\* null deletes the key, an array replaces the whole field, a spec that is not
\* an object is replaced by an object
ApplyMergePatch(obj, body) ==
  IF body.null
  THEN RawSpec("map", "absent", <<>>)
  ELSE RawSpec("map", "list", body.list)

\* the store rejects a patch whose metadata.resourceVersion is not current
VersionConflict(rec, body) == body.rv # NoRV /\ body.rv # rec.rv

\* ------------------------------------------------------------------------
\* Handlers: validation and the mapping of errors to HTTP statuses
\* ------------------------------------------------------------------------

\* projectNameRegex ^[a-zA-Z0-9_-]+$
MatchesNameRegex(project) ==
  Len(project) >= 1 /\ \A i \in 1..Len(project) : project[i] \in NameChars

\* validateProjectName
validateProjectName(project) ==
  project # EmptyName /\ MatchesNameRegex(project)

\* validateDestinationRequest without the two wildcard tests
validateDestinationRequestNoWildcard(req) ==
  /\ req.dest.server # ""
  /\ req.dest.namespace # ""
  /\ req.desc # ""

\* validateDestinationRequest
validateDestinationRequest(req) ==
  /\ req.dest.server # ""
  /\ req.dest.namespace # ""
  /\ req.dest.server # "*"
  /\ req.dest.namespace # "*"
  /\ req.desc # ""

\* APIKeyAuth comparing the key only when the header is present
APIKeyAuthEmptyPasses(providedKey) ==
  IF providedKey # "" /\ providedKey # ConfiguredKey THEN 401
  ELSE 0

\* APIKeyAuth: 0 when the request is passed on to the handler
APIKeyAuth(providedKey) ==
  IF providedKey = "" THEN 401
  ELSE IF providedKey # ConfiguredKey THEN 401
  ELSE 0

\* errors a store call can return besides NotFound and Conflict, which the
\* state of the store decides
Faults == {"Forbidden", "Other", "Canceled"}

\* the error branch of the handlers without the test for a conflict
ErrorStatusNoConflict(err) ==
  IF err = "NotFound" THEN 404
  ELSE IF err = "Forbidden" THEN 403
  ELSE 500

\* the error branch of AddDestination / RemoveDestination and handleK8sError
ErrorStatus(err) ==
  IF err = "Conflict" THEN 409
  ELSE IF err = "NotFound" THEN 404
  ELSE IF err = "Forbidden" THEN 403
  ELSE 500

\* handleK8sError, as called by ListDestinations
handleK8sError(err) ==
  IF err = "NotFound" THEN 404
  ELSE IF err = "Forbidden" THEN 403
  ELSE 500

\* the status written when the client call returned nil
SuccessStatus(op) ==
  IF op = "add" THEN 201 ELSE IF op = "remove" THEN 204 ELSE 200


\* ------------------------------------------------------------------------
\* Requests
\* ------------------------------------------------------------------------

Request(route, op, key, project, json, dest, desc) ==
  [route |-> route, op |-> op, key |-> key, project |-> project,
   json |-> json, dest |-> dest, desc |-> desc]

\* requests that pass the middleware and the validation
ValidRequests ==
  { Request("dest", op, ConfiguredKey, P1, TRUE, d, "why") :
      op \in {"add", "remove"}, d \in Dests }
  \cup { Request("dest", op, ConfiguredKey, P2, TRUE, DB, "why") :
           op \in {"add", "remove"} }
  \cup { Request("dest", "list", ConfiguredKey, pr, TRUE, NoDest, "") :
           pr \in StoreNames }

\* one request for every way of being turned away, and the health check
OtherRequests ==
  { Request("health", "health", "", EmptyName, TRUE, NoDest, ""),
    Request("dest", "add", "", P1, TRUE, DA, "why"),
    Request("dest", "remove", "bad", P1, TRUE, DA, "why"),
    Request("dest", "list", "", P1, TRUE, NoDest, ""),
    Request("dest", "add", ConfiguredKey, EmptyName, TRUE, DA, "why"),
    Request("dest", "remove", ConfiguredKey, BadName, TRUE, DA, "why"),
    Request("dest", "list", ConfiguredKey, BadName, TRUE, NoDest, ""),
    Request("dest", "add", ConfiguredKey, P1, FALSE, NoDest, ""),
    Request("dest", "add", ConfiguredKey, P1, TRUE, [DA EXCEPT !.server = ""], "why"),
    Request("dest", "remove", ConfiguredKey, P1, TRUE, [DA EXCEPT !.namespace = ""], "why"),
    Request("dest", "add", ConfiguredKey, P1, TRUE, [DA EXCEPT !.server = "*"], "why"),
    Request("dest", "remove", ConfiguredKey, P1, TRUE, [DA EXCEPT !.namespace = "*"], "why"),
    Request("dest", "add", ConfiguredKey, P1, TRUE, DA, "") }

Requests == ValidRequests \cup OtherRequests

\* the valid requests on the record P1
CoreRequests == { r \in ValidRequests : r.project = P1 }

\* ------------------------------------------------------------------------
\* State
\* ------------------------------------------------------------------------

VARIABLES
  store,     \* the AppProjects of the namespace: name -> [exists, rv, obj, other]
  h,         \* the request each handler goroutine is serving and its locals
  auditLog,  \* the entries written to the audit file, in order
  nreq,      \* requests received so far
  next,      \* writes made by other writers so far
  commits,   \* patches of this service that the store accepted
  last       \* the latest AddDestination / RemoveDestination call that returned

vars == <<store, h, auditLog, nreq, next, commits, last>>

\* no request
NoRequest == Request("none", "none", "", EmptyName, TRUE, NoDest, "")

\* a goroutine that serves no request.  req is the request as received,
\* geterr the error the GET of the store returned, patcherr the error its
\* PATCH returned, logged the entries passed to Logger.Log
Idle ==
  [pc |-> "idle", op |-> "none", project |-> EmptyName, dest |-> NoDest,
   desc |-> "", fetched |-> <<>>, rv |-> NoRV, body |-> NoBody,
   err |-> "none", status |-> 0, nfetch |-> 0, npatch |-> 0, wrote |-> FALSE,
   req |-> NoRequest, geterr |-> "none", patcherr |-> "none",
   logged |-> <<>>]

NoCall ==
  [op |-> "none", project |-> EmptyName, dest |-> NoDest, err |-> "none",
   rv |-> NoRV, list |-> <<>>]

\* raw objects a record can hold at start or after a write by another writer
RawObjects ==
  { ListSpec(<<>>), ListSpec(<<DA>>), ListSpec(<<DB, DA>>),
    ListSpec(<<DA, DB, DA>>),
    RawSpec("map", "list", <<Junk, EncodeDest(DA)>>),
    RawSpec("map", "list", <<[EncodeDest(DB) EXCEPT !.namespace = NoStr], Junk>>),
    RawSpec("absent", "absent", <<>>),
    RawSpec("map", "absent", <<>>),
    RawSpec("bad", "absent", <<>>),
    RawSpec("map", "bad", <<>>) }

\* raw objects of the record P1 at start
InitObjects == { ListSpec(<<>>), ListSpec(<<DA>>), ListSpec(<<DB, DA>>) }

StoreRecord(exists, rv, obj, other) ==
  [exists |-> exists, rv |-> rv, obj |-> obj, other |-> other]

Init ==
  /\ \E o1 \in InitObjects : store = [n \in {P1} |-> StoreRecord(TRUE, 1, o1, 0)]
  /\ h = [p \in Procs |-> Idle]
  /\ auditLog = <<>>
  /\ nreq = 0
  /\ next = 0
  /\ commits = 0
  /\ last = NoCall

\* the list a GET of the record would return now
Stored(n) == extractDestinations(store[n].obj).dests

Present(n) == n \in DOMAIN store /\ store[n].exists


\* ------------------------------------------------------------------------
\* Actions of the request handlers
\* ------------------------------------------------------------------------

\* the error of the store replaced by a new error that only carries its text
PropagateAsOther(e) == "Other"

\* GetDestinations, patchDestinations, AddDestination and RemoveDestination
\* return the error of the GET or of the PATCH as it is
Propagate(e) == e

\* the call recorded when AddDestination / RemoveDestination returns
Returned(hp, err, rec) ==
  IF hp.op \in {"add", "remove"}
  THEN [op |-> hp.op, project |-> hp.project, dest |-> hp.dest, err |-> err,
        rv |-> rec.rv, list |-> extractDestinations(rec.obj).dests]
  ELSE last

\* the handler has answered: status is the HTTP status written
Answer(hp, err, status) ==
  [hp EXCEPT !.pc = "done", !.err = err, !.status = status]

\* the state of a handler up to the call of the client: the router, the
\* APIKeyAuth middleware, validateProjectName, the JSON decoding and
\* validateDestinationRequest
Accept(req) ==
  LET hp == [Idle EXCEPT !.op = req.op, !.project = req.project,
                         !.dest = req.dest, !.desc = req.desc, !.req = req]
      no == [Idle EXCEPT !.op = req.op, !.req = req]
  IN IF req.route = "health" THEN Answer(no, "none", 200)
     ELSE IF APIKeyAuth(req.key) # 0 THEN Answer(no, "none", APIKeyAuth(req.key))
     ELSE IF ~validateProjectName(req.project) THEN Answer(no, "none", 400)
     ELSE IF req.op = "list" THEN [hp EXCEPT !.pc = "fetch"]
     ELSE IF ~req.json THEN Answer(no, "none", 400)
     ELSE IF ~validateDestinationRequest(req) THEN Answer(no, "none", 400)
     ELSE [hp EXCEPT !.pc = "fetch"]

\* the request req arrives and runs up to its first call of the store
Serve(p, req) ==
  /\ h[p].pc = "idle"
  /\ nreq < MaxRequests
  /\ h' = [h EXCEPT ![p] = Accept(req)]
  /\ nreq' = nreq + 1
  /\ UNCHANGED <<store, auditLog, next, commits, last>>

\* a valid request on the record P1 arrives
Receive(p) == \E req \in CoreRequests : Serve(p, req)

\* any request arrives
ReceiveAny(p) == \E req \in Requests : Serve(p, req)

\* ListDestinations going on to the audit log after GetDestinations returned
AfterListAudits(got) == [got EXCEPT !.pc = "audit", !.err = "nil"]

\* ListDestinations after GetDestinations returned without error: the list
\* is written with the status 200
AfterList(got) == Answer(got, "nil", SuccessStatus("list"))

\* the state of a handler after GetDestinations returned the record rec:
\* ListDestinations answers; AddDestination / RemoveDestination return nil
\* when there is nothing to change, or go on to patchDestinations
AfterGet(hp, rec) ==
  LET res == extractDestinations(rec.obj)
      got == [hp EXCEPT !.nfetch = @ + 1, !.geterr = "nil"]
      calc == IF hp.op = "add" THEN AddCompute(res.dests, hp.dest)
              ELSE RemoveCompute(res.dests, hp.dest)
  IN IF res.err
     THEN Answer(got, "Extract",
                 IF hp.op = "list" THEN handleK8sError("Extract")
                 ELSE ErrorStatus("Extract"))
     ELSE IF hp.op = "list"
     THEN AfterList([got EXCEPT !.fetched = res.dests, !.rv = rec.rv])
     ELSE IF ~calc.changed
     THEN [got EXCEPT !.pc = "audit", !.fetched = res.dests, !.rv = rec.rv,
                      !.err = "nil"]
     ELSE [got EXCEPT !.pc = "patch", !.fetched = res.dests, !.rv = rec.rv,
                      !.body = PatchBody(calc.out, rec.rv)]

\* GetDestinations: the store answers the GET
Fetch(p) ==
  /\ h[p].pc = "fetch"
  /\ LET hp == h[p]
         st == IF hp.op = "list" THEN handleK8sError(Propagate("NotFound"))
               ELSE ErrorStatus(Propagate("NotFound"))
         new == IF Present(hp.project)
                THEN AfterGet(hp, store[hp.project])
                ELSE Answer([hp EXCEPT !.nfetch = @ + 1, !.geterr = "NotFound"],
                            Propagate("NotFound"), st)
     IN /\ h' = [h EXCEPT ![p] = new]
        /\ last' = IF new.pc = "patch" THEN last
                   ELSE IF Present(hp.project)
                   THEN Returned(hp, new.err, store[hp.project])
                   ELSE Returned(hp, Propagate("NotFound"),
                                 StoreRecord(FALSE, NoRV,
                                             RawSpec("absent", "absent", <<>>), 0))
  /\ UNCHANGED <<store, auditLog, nreq, next, commits>>

\* GetDestinations: the GET fails (access denied, transport failure, context
\* cancelled)
FetchFault(p) ==
  /\ h[p].pc = "fetch"
  /\ Present(h[p].project)
  /\ \E e \in Faults :
       LET hp == h[p]
           r == Propagate(e)
           st == IF hp.op = "list" THEN handleK8sError(r) ELSE ErrorStatus(r)
       IN /\ h' = [h EXCEPT ![p] = Answer([hp EXCEPT !.nfetch = @ + 1,
                                                     !.geterr = e], r, st)]
          /\ last' = Returned(hp, r, store[hp.project])
  /\ UNCHANGED <<store, auditLog, nreq, next, commits>>

\* AddDestination / RemoveDestination starting over when the PATCH returned a
\* conflict
AfterPatchErrorRetry(hp, e) ==
  IF e = "Conflict" THEN [hp EXCEPT !.pc = "fetch"]
  ELSE Answer(hp, e, ErrorStatus(e))

\* patchDestinations returned the error e: AddDestination / RemoveDestination
\* return it and the handler answers, without another call of the store
AfterPatchError(hp, e) == Answer(hp, e, ErrorStatus(e))

\* the PATCH sent to the record P1 whatever the project of the request
PatchTargetFixed(hp) == P1

\* the record patchDestinations names in its PATCH: projectName
PatchTarget(hp) == hp.project

\* patchDestinations: the store answers the PATCH; it applies the merge patch
\* and assigns a new resourceVersion unless the record is gone or the
\* resourceVersion of the patch is stale
Patch(p) ==
  /\ h[p].pc = "patch"
  /\ LET hp == [h[p] EXCEPT !.npatch = @ + 1]
         rec == store[PatchTarget(hp)]
         new == [rec EXCEPT !.obj = ApplyMergePatch(rec.obj, hp.body),
                            !.rv = rec.rv + 1]
     IN IF ~rec.exists
        THEN /\ h' = [h EXCEPT ![p] =
                          AfterPatchError([hp EXCEPT !.patcherr = "NotFound"],
                                          Propagate("NotFound"))]
             /\ last' = Returned(hp, Propagate("NotFound"), rec)
             /\ UNCHANGED <<store, commits>>
        ELSE IF VersionConflict(rec, hp.body)
        THEN /\ h' = [h EXCEPT ![p] =
                          AfterPatchError([hp EXCEPT !.patcherr = "Conflict"],
                                          Propagate("Conflict"))]
             /\ last' = Returned(hp, Propagate("Conflict"), rec)
             /\ UNCHANGED <<store, commits>>
        ELSE /\ store' = [store EXCEPT ![PatchTarget(hp)] = new]
             /\ h' = [h EXCEPT ![p] = [hp EXCEPT !.pc = "audit", !.err = "nil",
                                                 !.patcherr = "nil",
                                                 !.wrote = TRUE]]
             /\ last' = Returned(hp, "nil", new)
             /\ commits' = commits + 1
  /\ UNCHANGED <<auditLog, nreq, next>>

\* patchDestinations: the PATCH fails without reaching the record
PatchFault(p) ==
  /\ h[p].pc = "patch"
  /\ store[h[p].project].exists
  /\ \E e \in Faults :
       LET hp == [h[p] EXCEPT !.npatch = @ + 1]
       IN /\ h' = [h EXCEPT ![p] = AfterPatchError([hp EXCEPT !.patcherr = e],
                                                   Propagate(e))]
          /\ last' = Returned(hp, Propagate(e), store[hp.project])
  /\ UNCHANGED <<store, auditLog, nreq, next, commits>>

\* the audit.Entry of both handlers with the Action of AddDestination
EntryAlwaysAdd(hp) ==
  [action |-> "add", project |-> hp.project, server |-> hp.dest.server,
   namespace |-> hp.dest.namespace, name |-> hp.dest.name,
   description |-> hp.desc]

\* the audit.Entry a handler passes to Logger.Log
Entry(hp) ==
  [action |-> hp.op, project |-> hp.project, server |-> hp.dest.server,
   namespace |-> hp.dest.namespace, name |-> hp.dest.name,
   description |-> hp.desc]

\* the handler answering 500 when Logger.Log returned an error
AfterLogErrorFails(hp) == Answer(hp, "nil", 500)

\* the handler after Logger.Log returned an error: the error is printed and
\* the success response is written
AfterLogError(hp) == Answer(hp, "nil", SuccessStatus(hp.op))

\* the handler after the client returned nil: Logger.Log appends the entry,
\* then the success response is written
Log(p) ==
  /\ h[p].pc = "audit"
  /\ auditLog' = Append(auditLog, Entry(h[p]))
  /\ h' = [h EXCEPT ![p] = Answer([h[p] EXCEPT !.logged = Append(@, Entry(h[p]))],
                                  "nil", SuccessStatus(h[p].op))]
  /\ UNCHANGED <<store, nreq, next, commits, last>>

\* Logger.Log returns an error: it is printed and the response is the same
LogFails(p) ==
  /\ h[p].pc = "audit"
  /\ h' = [h EXCEPT ![p] = AfterLogError([h[p] EXCEPT !.logged = Append(@, Entry(h[p]))])]
  /\ UNCHANGED <<store, auditLog, nreq, next, commits, last>>

\* the goroutine ends and can serve another request
Finish(p) ==
  /\ h[p].pc = "done"
  /\ h' = [h EXCEPT ![p] = Idle]
  /\ UNCHANGED <<store, auditLog, nreq, next, commits, last>>

\* ------------------------------------------------------------------------
\* Other writers of the store
\* ------------------------------------------------------------------------

\* another writer replaces spec of a record
ExternalWrite(n) ==
  /\ next < MaxExternal
  /\ store[n].exists
  /\ \E o \in RawObjects :
       /\ o # store[n].obj
       /\ store' = [store EXCEPT ![n].obj = o, ![n].rv = @ + 1]
  /\ next' = next + 1
  /\ UNCHANGED <<h, auditLog, nreq, commits, last>>

\* another writer changes a field of the record outside spec
ExternalTouch(n) ==
  /\ next < MaxExternal
  /\ store[n].exists
  /\ store' = [store EXCEPT ![n].other = 1 - @, ![n].rv = @ + 1]
  /\ next' = next + 1
  /\ UNCHANGED <<h, auditLog, nreq, commits, last>>

\* another writer deletes the record
ExternalDelete(n) ==
  /\ next < MaxExternal
  /\ store[n].exists
  /\ store' = [store EXCEPT ![n].exists = FALSE]
  /\ next' = next + 1
  /\ UNCHANGED <<h, auditLog, nreq, commits, last>>

\* ------------------------------------------------------------------------
\* Two callers that add different destinations to P1 and retry on 409
\* ------------------------------------------------------------------------

\* a caller sends its Add; the two callers add different destinations
ReceiveAdd(p) ==
  \E d \in Dests :
    /\ \A q \in Procs \ {p} : h[q].dest # d
    /\ Serve(p, Request("dest", "add", ConfiguredKey, P1, TRUE, d, "why"))

\* the caller that was answered 409 sends the same request again
Retry(p) ==
  /\ h[p].pc = "done"
  /\ h[p].status = 409
  /\ h' = [h EXCEPT ![p] = Accept(h[p].req)]
  /\ UNCHANGED <<store, auditLog, nreq, next, commits, last>>

NextRace ==
  \/ \E p \in Procs : ReceiveAdd(p)
  \/ \E p \in Procs : Fetch(p)
  \/ \E p \in Procs : Patch(p)
  \/ \E p \in Procs : Log(p)
  \/ \E p \in Procs : Retry(p)

\* every call of the store returns, Logger.Log returns, and a caller that
\* was told to retry does so
RaceFairness ==
  \A p \in Procs :
    /\ WF_vars(Fetch(p))
    /\ WF_vars(Patch(p))
    /\ WF_vars(Log(p))
    /\ WF_vars(Retry(p))

RaceSpec == Init /\ [][NextRace]_vars /\ RaceFairness

\* ------------------------------------------------------------------------
\* The service with every kind of request and with failing store calls;
\* the handlers are the only writers of the store, which can lose a record
\* ------------------------------------------------------------------------

NextHttp ==
  \/ \E p \in Procs : ReceiveAny(p)
  \/ \E p \in Procs : Fetch(p)
  \/ \E p \in Procs : FetchFault(p)
  \/ \E p \in Procs : Patch(p)
  \/ \E p \in Procs : PatchFault(p)
  \/ \E p \in Procs : Log(p)
  \/ \E p \in Procs : LogFails(p)
  \/ \E p \in Procs : Finish(p)
  \/ \E n \in DOMAIN store : ExternalDelete(n)

HttpSpec == Init /\ [][NextHttp]_vars

\* ------------------------------------------------------------------------
\* Logger.Log step by step: Lock, then the marshalling and the one Write of
\* the line, then the deferred Unlock as Log returns
\* ------------------------------------------------------------------------

\* l.mu is held: a goroutine is between l.mu.Lock() and the deferred Unlock
MuHeld == \E q \in Procs : h[q].pc = "logging"

\* Logger.Log entering its critical section without the mutex
LockGrantedAlways(held) == TRUE

\* l.mu.Lock() returns only while no other goroutine holds l.mu
LockGranted(held) == ~held

\* Logger.Log: the handler called Log and l.mu.Lock() has returned
LogLock(p) ==
  /\ h[p].pc = "audit"
  /\ LockGranted(MuHeld)
  /\ h' = [h EXCEPT ![p].pc = "logging"]
  /\ UNCHANGED <<store, auditLog, nreq, next, commits, last>>

\* Logger.Log: the line is written by one Write, l.mu is unlocked as Log
\* returns and the handler writes the success response
LogWrite(p) ==
  /\ h[p].pc = "logging"
  /\ auditLog' = Append(auditLog, Entry(h[p]))
  /\ h' = [h EXCEPT ![p] = Answer([h[p] EXCEPT !.logged = Append(@, Entry(h[p]))],
                                  "nil", SuccessStatus(h[p].op))]
  /\ UNCHANGED <<store, nreq, next, commits, last>>

\* Logger.Log: the Write fails, l.mu is unlocked as Log returns its error
LogWriteFails(p) ==
  /\ h[p].pc = "logging"
  /\ h' = [h EXCEPT ![p] = AfterLogError([h[p] EXCEPT !.logged = Append(@, Entry(h[p]))])]
  /\ UNCHANGED <<store, auditLog, nreq, next, commits, last>>

NextAudit ==
  \/ \E p \in Procs : Receive(p)
  \/ \E p \in Procs : Fetch(p)
  \/ \E p \in Procs : Patch(p)
  \/ \E p \in Procs : LogLock(p)
  \/ \E p \in Procs : LogWrite(p)
  \/ \E p \in Procs : LogWriteFails(p)
  \/ \E p \in Procs : Finish(p)

AuditSpec == Init /\ [][NextAudit]_vars

\* ------------------------------------------------------------------------
\* The service with two records, valid requests on both and callers that
\* retry on 409; the handlers are the only writers of the store
\* ------------------------------------------------------------------------

\* raw objects of the record P2 at start
InitObjectsTwo == { ListSpec(<<>>), ListSpec(<<DB>>) }

InitTwo ==
  /\ \E o1 \in InitObjects, o2 \in InitObjectsTwo :
       store = (P1 :> StoreRecord(TRUE, 1, o1, 0)) @@
               (P2 :> StoreRecord(TRUE, 1, o2, 0))
  /\ h = [p \in Procs |-> Idle]
  /\ auditLog = <<>>
  /\ nreq = 0
  /\ next = 0
  /\ commits = 0
  /\ last = NoCall

\* a valid request on P1 or P2 arrives
ReceiveValid(p) == \E req \in ValidRequests : Serve(p, req)

NextTwo ==
  \/ \E p \in Procs : ReceiveValid(p)
  \/ \E p \in Procs : Fetch(p)
  \/ \E p \in Procs : Patch(p)
  \/ \E p \in Procs : Log(p)
  \/ \E p \in Procs : Retry(p)
  \/ \E p \in Procs : Finish(p)

TwoSpec == InitTwo /\ [][NextTwo]_vars

Next ==
  \/ \E p \in Procs : Receive(p)
  \/ \E p \in Procs : Fetch(p)
  \/ \E p \in Procs : Patch(p)
  \/ \E p \in Procs : Log(p)
  \/ \E p \in Procs : LogFails(p)
  \/ \E p \in Procs : Finish(p)
  \/ \E n \in DOMAIN store : ExternalWrite(n)
  \/ \E n \in DOMAIN store : ExternalTouch(n)
  \/ \E n \in DOMAIN store : ExternalDelete(n)

Spec == Init /\ [][Next]_vars


\* ------------------------------------------------------------------------
\* Properties
\* ------------------------------------------------------------------------

\* the list a GET of record n returns in the store st
StoredIn(st, n) == extractDestinations(st[n].obj).dests

\* handler p takes the step in which the store answers its PATCH
PatchStep(p) == h[p].pc = "patch" /\ h'[p].pc # "patch"

\* handler p takes the step in which the store answers its GET
FetchStep(p) == h[p].pc = "fetch" /\ h'[p].pc # "fetch"

\* the list ds with the one change (op, d) applied
Applied(op, ds, d) ==
  IF op = "add" THEN Append(ds, d)
  ELSE SelectSeq(ds, LAMBDA e : e # d)

\* C1: no lost updates.  A patch of AddDestination / RemoveDestination changes
\* the store only if the record's resourceVersion still is the one its own
\* GetDestinations returned, and then the list stored after the commit is the
\* list stored just before it with that one add or remove applied; a patch
\* reported as committed did change the store in this way.
C1_NoLostUpdates ==
  [][\A p \in Procs :
       (PatchStep(p) /\ (store' # store \/ h'[p].err = "nil"))
       => /\ store[h[p].project].rv = h[p].rv
          /\ h'[p].err = "nil"
          /\ \A n \in DOMAIN store : n # h[p].project => store'[n] = store[n]
          /\ StoredIn(store', h[p].project)
               = Applied(h[p].op, StoredIn(store, h[p].project), h[p].dest)]_vars

\* a handler committed and another one, which raced with it, got Conflict
C1_Witness ==
  \E p, q \in Procs :
    /\ h[p].wrote /\ h[p].pc = "done"
    /\ h[q].pc = "done" /\ h[q].err = "Conflict" /\ h[q].npatch = 1
    /\ h[q].rv = h[p].rv


\* the client call of handler p has returned after one PATCH
Patched(p) == h[p].pc \in {"audit", "done"} /\ h[p].npatch = 1

\* C2: two AddDestination calls on the same record, for different
\* destinations, that fetched the same resourceVersion and both sent their
\* patch: exactly one of them committed and the other one got Conflict.
C2_ExactlyOneCommits ==
  \A p, q \in Procs :
    ( /\ p # q
      /\ h[p].op = "add" /\ h[q].op = "add"
      /\ h[p].project = h[q].project
      /\ h[p].dest # h[q].dest
      /\ Patched(p) /\ Patched(q)
      /\ h[p].rv = h[q].rv )
    => \/ h[p].err = "nil" /\ h[p].wrote /\ h[q].err = "Conflict" /\ ~h[q].wrote
       \/ h[q].err = "nil" /\ h[q].wrote /\ h[p].err = "Conflict" /\ ~h[p].wrote

\* both racing adds were answered: 201 for one, 409 for the other
C2_Witness ==
  \E p, q \in Procs :
    /\ h[p].op = "add" /\ h[q].op = "add" /\ h[p].dest # h[q].dest
    /\ h[p].rv = h[q].rv
    /\ h[p].pc = "done" /\ h[p].status = 201 /\ h[p].wrote
    /\ h[q].pc = "done" /\ h[q].status = 409 /\ h[q].npatch = 1

\* both callers have sent their Add
BothSent == \A p \in Procs : h[p].pc # "idle"

\* both calls are answered 201 and the record holds both destinations
BothAdded ==
  \A p \in Procs :
    /\ h[p].pc = "done" /\ h[p].status = 201
    /\ Contains(Stored(P1), h[p].dest)

\* C3: when the caller that got Conflict repeats its Add from scratch, and
\* nobody else writes, two racing adds of different destinations end with
\* both calls answered and both destinations in the record.
C3_RaceConverges == BothSent ~> BothAdded

\* the loser of the race has retried and both destinations are stored
C3_Witness ==
  \E p, q \in Procs :
    /\ BothAdded
    /\ h[p].wrote /\ h[q].wrote
    /\ h[q].rv = h[p].rv + 1
    /\ Len(auditLog) = 2


\* the GetDestinations of handler p succeeded in this step
Fetched(p) == FetchStep(p) /\ h'[p].rv # NoRV

\* no other writer has touched the record of handler p since p fetched it
Undisturbed(p) ==
  store[h[p].project].exists /\ store[h[p].project].rv = h[p].rv

\* C4: AddDestination of a destination that is in the fetched list returns
\* nil without sending a patch, and the step leaves every record, its
\* destinations and its resourceVersion, as it was.
C4_AddPresentIsNoop ==
  /\ [][\A p \in Procs :
          (Fetched(p) /\ h[p].op = "add" /\ Contains(h'[p].fetched, h[p].dest))
          => /\ h'[p].pc = "audit" /\ h'[p].err = "nil"
             /\ h'[p].npatch = 0 /\ ~h'[p].wrote
             /\ store' = store]_vars
  /\ [](\A p \in Procs :
          (h[p].op = "add" /\ h[p].nfetch = 1 /\ Contains(h[p].fetched, h[p].dest))
          => h[p].npatch = 0 /\ ~h[p].wrote)

\* an add of a stored destination was answered without a write
C4_Witness ==
  \E p \in Procs :
    /\ h[p].op = "add" /\ h[p].pc = "done" /\ h[p].status = 201
    /\ Contains(h[p].fetched, h[p].dest)
    /\ h[p].npatch = 0 /\ commits = 0 /\ next = 0
    /\ store[P1].rv = h[p].rv

\* C5: RemoveDestination of a destination that is not in the fetched list
\* returns nil without sending a patch, and the step leaves every record, its
\* destinations and its resourceVersion, as it was.
C5_RemoveAbsentIsNoop ==
  /\ [][\A p \in Procs :
          (Fetched(p) /\ h[p].op = "remove" /\ ~Contains(h'[p].fetched, h[p].dest))
          => /\ h'[p].pc = "audit" /\ h'[p].err = "nil"
             /\ h'[p].npatch = 0 /\ ~h'[p].wrote
             /\ store' = store]_vars
  /\ [](\A p \in Procs :
          (h[p].op = "remove" /\ h[p].nfetch = 1 /\ h[p].rv # NoRV
             /\ ~Contains(h[p].fetched, h[p].dest))
          => h[p].npatch = 0 /\ ~h[p].wrote)

\* a remove of a destination that is not stored was answered without a write
C5_Witness ==
  \E p \in Procs :
    /\ h[p].op = "remove" /\ h[p].pc = "done" /\ h[p].status = 204
    /\ ~Contains(h[p].fetched, h[p].dest)
    /\ h[p].npatch = 0 /\ commits = 0 /\ next = 0
    /\ store[P1].rv = h[p].rv

\* C6: AddDestination of a destination that is not in the fetched list sends
\* the patch, and when no other writer touched the record in between the
\* patch commits, the call returns nil and a GET that follows returns a list
\* containing the destination.
C6_AddAbsentCommits ==
  [][\A p \in Procs :
       /\ (Fetched(p) /\ h[p].op = "add" /\ ~Contains(h'[p].fetched, h[p].dest))
          => h'[p].pc = "patch"
       /\ (PatchStep(p) /\ h[p].op = "add" /\ Undisturbed(p))
          => /\ h'[p].err = "nil" /\ h'[p].wrote /\ h'[p].pc = "audit"
             /\ store'[h[p].project].rv # store[h[p].project].rv
             /\ Contains(StoredIn(store', h[p].project), h[p].dest)]_vars

\* an add of a new destination was committed and answered 201
C6_Witness ==
  \E p \in Procs :
    /\ h[p].op = "add" /\ h[p].pc = "done" /\ h[p].status = 201
    /\ ~Contains(h[p].fetched, h[p].dest)
    /\ h[p].wrote
    /\ Contains(Stored(P1), h[p].dest)

\* C7: RemoveDestination of a destination that is in the fetched list sends
\* the patch, and when no other writer touched the record in between the
\* patch commits, the call returns nil and a GET that follows returns the
\* stored list without any element equal to the destination, the other
\* elements in their order.
C7_RemovePresentCommits ==
  [][\A p \in Procs :
       /\ (Fetched(p) /\ h[p].op = "remove" /\ Contains(h'[p].fetched, h[p].dest))
          => h'[p].pc = "patch"
       /\ (PatchStep(p) /\ h[p].op = "remove" /\ Undisturbed(p))
          => /\ h'[p].err = "nil" /\ h'[p].wrote /\ h'[p].pc = "audit"
             /\ ~Contains(StoredIn(store', h[p].project), h[p].dest)
             /\ StoredIn(store', h[p].project)
                  = SelectSeq(StoredIn(store, h[p].project),
                              LAMBDA e : e # h[p].dest)]_vars

\* a remove dropped both occurrences of a destination and kept the element
\* between them
C7_Witness ==
  \E p \in Procs :
    /\ h[p].op = "remove" /\ h[p].pc = "done" /\ h[p].status = 204
    /\ h[p].wrote
    /\ h[p].fetched = <<DA, DB, DA>> /\ h[p].dest = DA
    /\ Stored(P1) = <<DB>>

\* C8: an AddDestination / RemoveDestination that follows an identical call
\* that returned nil, with no write to the record in between, returns nil
\* without sending a patch and leaves the store as it was; the list it
\* fetched is the list the earlier call left.
C8_RepeatIsNoop ==
  [][\A p \in Procs :
       ( /\ Fetched(p)
         /\ h[p].op \in {"add", "remove"}
         /\ last.op = h[p].op /\ last.project = h[p].project
         /\ last.dest = h[p].dest /\ last.err = "nil"
         /\ store[h[p].project].rv = last.rv )
       => /\ h'[p].pc = "audit" /\ h'[p].err = "nil"
          /\ h'[p].npatch = 0 /\ ~h'[p].wrote
          /\ store' = store
          /\ h'[p].fetched = last.list]_vars

\* the same call was made twice: the first committed, the second did not
\* write
C8_Witness ==
  \E p \in Procs :
    /\ h[p].pc = "done" /\ h[p].npatch = 0 /\ h[p].nfetch = 1
    /\ Len(auditLog) = 2 /\ auditLog[1] = auditLog[2]
    /\ auditLog[2] = Entry(h[p])
    /\ commits = 1 /\ next = 0
    /\ h[p].rv = 2

\* C9: the value returned by AddDestination / RemoveDestination tells whether
\* a write was performed: two calls of the same operation that returned the
\* same value either both wrote or both did not.
C9_ReturnTellsWrite ==
  \A p, q \in Procs :
    ( /\ h[p].pc \in {"audit", "done"} /\ h[q].pc \in {"audit", "done"}
      /\ h[p].op \in {"add", "remove"} /\ h[p].op = h[q].op
      /\ h[p].err = h[q].err )
    => h[p].wrote = h[q].wrote

\* C10: audit entries are written after committed mutations only: there are
\* never more audit entries than patches accepted by the store.
C10_AuditOnlyAfterCommit == Len(auditLog) <= commits


\* the entry that describes the request req
EntryOf(req) ==
  [action |-> req.op, project |-> req.project, server |-> req.dest.server,
   namespace |-> req.dest.namespace, name |-> req.dest.name,
   description |-> req.desc]

LogStep(p) == h[p].pc = "audit" /\ h'[p].pc # "audit"

\* C12: a failure of the audit log neither rolls back nor blocks a committed
\* mutation.  When Logger.Log returns without having written the entry after
\* a committed patch, the store is left as committed and the handler answers
\* 201 for an add and 204 for a remove.
C12_AuditFailureIgnored ==
  [][\A p \in Procs :
       (LogStep(p) /\ h[p].wrote /\ auditLog' = auditLog)
       => /\ store' = store
          /\ h'[p].pc = "done"
          /\ h'[p].status = IF h[p].req.op = "add" THEN 201 ELSE 204]_vars

\* a committed add was answered 201 although nothing was written to the log
C12_Witness ==
  \E p \in Procs :
    /\ h[p].wrote /\ h[p].pc = "done" /\ h[p].req.op = "add"
    /\ h[p].status = 201
    /\ auditLog = <<>> /\ commits = 1
    /\ Contains(Stored(P1), h[p].dest)


\* the raw record lacks a list of destinations: spec or spec.destinations is
\* absent or has the wrong shape
Shapeless(obj) == obj.spec # "map" \/ obj.dests # "list"

\* C13: for every raw record whose destinations are missing or malformed
\* (spec absent, destinations absent, or spec / destinations of the wrong
\* shape) the fetch returns the empty sequence with the version token of the
\* record, never an error.
C13_ShapelessIsEmpty ==
  [][\A p \in Procs :
       (/\ FetchStep(p)
        /\ Present(h[p].project)
        /\ Shapeless(store[h[p].project].obj))
       => /\ h'[p].err # "Extract"
          /\ h'[p].fetched = <<>>
          /\ h'[p].rv = store[h[p].project].rv]_vars

\* an element of the raw list that is a JSON object
IsObject(e) == ~e.junk

C15_FetchErrorPropagates ==
  [][\A p \in Procs :
       (/\ FetchStep(p)
        /\ h[p].op \in {"add", "remove"}
        /\ h'[p].geterr \in {"NotFound", "Forbidden", "Other"})
       => /\ h'[p].err = h'[p].geterr
          /\ last'.err = h'[p].geterr
          /\ last'.op = h[p].op /\ last'.dest = h[p].dest
          /\ h'[p].pc = "done"
          /\ h'[p].nfetch = 1 /\ h'[p].npatch = 0
          /\ ~h'[p].wrote
          /\ store' = store]_vars

\* a remove ended with the Forbidden error of its GET and sent no PATCH
C15_Witness ==
  \E p \in Procs :
    /\ h[p].pc = "done" /\ h[p].op = "remove"
    /\ h[p].geterr = "Forbidden" /\ h[p].err = "Forbidden"
    /\ last.err = "Forbidden"
    /\ h[p].nfetch = 1 /\ h[p].npatch = 0

\* a real change is needed: the fetched list lacks the destination to add, or
\* holds the destination to remove
ChangeNeeded(hp) ==
  LET held == \E i \in 1..Len(hp.fetched) : hp.fetched[i] = hp.dest
  IN IF hp.op = "add" THEN ~held ELSE held

\* C16: every add or remove sends exactly one GET and at most one PATCH:
\* one when the GET succeeded and a real change is needed, none otherwise.
\* When the PATCH returns Conflict the call ends with Conflict after that one
\* GET and one PATCH, with no retry.
C16_OneFetchOnePatch ==
  \A p \in Procs :
    h[p].op \in {"add", "remove"} =>
      /\ h[p].pc = "fetch" => h[p].nfetch = 0 /\ h[p].npatch = 0
      /\ h[p].pc = "patch" =>
           h[p].nfetch = 1 /\ h[p].npatch = 0 /\ ChangeNeeded(h[p])
      /\ h[p].pc \in {"audit", "done"} =>
           /\ h[p].nfetch = 1
           /\ h[p].npatch =
                IF h[p].geterr = "nil" /\ h[p].err # "Extract" /\ ChangeNeeded(h[p])
                THEN 1 ELSE 0
      /\ h[p].err = "Conflict" =>
           h[p].pc = "done" /\ h[p].nfetch = 1 /\ h[p].npatch = 1

\* an add ended with Conflict after one GET and one PATCH
C16_Witness ==
  \E p \in Procs :
    /\ h[p].pc = "done" /\ h[p].op = "add" /\ h[p].err = "Conflict"
    /\ h[p].status = 409
    /\ h[p].nfetch = 1 /\ h[p].npatch = 1 /\ ~h[p].wrote


\* the GET or the PATCH of the handler returned the error e
StoreFailed(hp, e) == hp.geterr = e \/ hp.patcherr = e

\* C17: when the context is cancelled or times out during the GET or the
\* PATCH, the outcome is Cancelled, which is distinct from a transient error
\* both in the result of the client call and in what the handler reports.
C17_CancelledIsDistinct ==
  \A p, q \in Procs :
    (/\ h[p].pc = "done" /\ StoreFailed(h[p], "Canceled")
     /\ h[q].pc = "done" /\ StoreFailed(h[q], "Other"))
    => /\ h[p].err = "Canceled"
       /\ h[p].err # h[q].err
       /\ h[p].status # h[q].status

\* C17 as amended: when the context is cancelled or times out during the GET
\* or the PATCH, that call is the last store call of the request and the
\* client call returns the cancellation error, which differs from the error
\* of a transient failure; the handler answers 500 for both.
C17_CancelledDistinctInCore ==
  \A p, q \in Procs :
    /\ StoreFailed(h[p], "Canceled") =>
         /\ h[p].pc = "done"
         /\ h[p].err = "Canceled"
         /\ h[p].status = 500
         /\ h[p].nfetch = 1
         /\ h[p].npatch = IF h[p].geterr = "Canceled" THEN 0 ELSE 1
         /\ h[p].logged = <<>>
    /\ (StoreFailed(h[p], "Canceled") /\ StoreFailed(h[q], "Other")) =>
         /\ h[p].err # h[q].err
         /\ h[p].status = h[q].status

\* one request was cancelled during its PATCH, another met a transient error
\* of its GET
C17_Witness ==
  \E p, q \in Procs :
    /\ h[p].patcherr = "Canceled" /\ h[p].err = "Canceled" /\ h[p].status = 500
    /\ h[q].geterr = "Other" /\ h[q].err = "Other" /\ h[q].status = 500

\* the error of the first store call of the handler that failed
StoreError(hp) ==
  IF hp.geterr \notin {"none", "nil"} THEN hp.geterr
  ELSE IF hp.patcherr \notin {"none", "nil"} THEN hp.patcherr
  ELSE "nil"

\* C18: the outcome of an add or a remove that reached the store is
\* classified: a Conflict of the store is answered 409, NotFound 404,
\* Forbidden 403 and every other failure 500, each of 409, 404 and 403 for that
\* error only; 201 / 204 is answered only when the client call returned no
\* error.
C18_BoundaryClassification ==
  \A p \in Procs :
    (h[p].pc = "done" /\ h[p].op \in {"add", "remove"} /\ h[p].nfetch = 1) =>
      /\ h[p].status = 409 <=> StoreError(h[p]) = "Conflict"
      /\ h[p].status = 404 <=> StoreError(h[p]) = "NotFound"
      /\ h[p].status = 403 <=> StoreError(h[p]) = "Forbidden"
      /\ h[p].status = 500 <=>
           \/ StoreError(h[p]) \in {"Other", "Canceled"}
           \/ h[p].err = "Extract"
      /\ h[p].status \in {409, 404, 403, 500, 201, 204}
      /\ h[p].status \in {201, 204} =>
           /\ h[p].err = "nil" /\ StoreError(h[p]) = "nil"
           /\ h[p].status = IF h[p].op = "add" THEN 201 ELSE 204

\* a remove was answered 409 for the Conflict of its PATCH after the add of
\* the other handler was committed and answered 201
C18_Witness ==
  \E p, q \in Procs :
    /\ h[p].pc = "done" /\ h[p].op = "remove"
    /\ h[p].patcherr = "Conflict" /\ h[p].status = 409
    /\ h[q].pc = "done" /\ h[q].op = "add"
    /\ StoreError(h[q]) = "nil" /\ h[q].wrote /\ h[q].status = 201


\* the add / remove request req fails the validation of the handlers
FailsValidation(req) ==
  \/ req.project = <<>>
  \/ \E i \in 1..Len(req.project) : req.project[i] \notin NameChars
  \/ req.dest.server = ""
  \/ req.dest.namespace = ""
  \/ req.dest.server = "*"
  \/ req.dest.namespace = "*"
  \/ req.desc = ""

\* C19: an add or remove request with the configured key and a JSON body that
\* fails validation (project name empty or with a character outside
\* [a-zA-Z0-9_-], empty server, empty namespace, server "*", namespace "*" or
\* empty description) is answered 400 and causes no GET, no PATCH and no audit
\* record.
C19_InvalidIsRejected ==
  \A p \in Procs :
    (/\ h[p].pc # "idle"
     /\ h[p].req.route = "dest" /\ h[p].req.op \in {"add", "remove"}
     /\ h[p].req.key = ConfiguredKey /\ h[p].req.json
     /\ FailsValidation(h[p].req))
    => /\ h[p].pc = "done"
       /\ h[p].status = 400
       /\ h[p].nfetch = 0 /\ h[p].npatch = 0 /\ ~h[p].wrote
       /\ h[p].logged = <<>>
       /\ \A i \in 1..Len(auditLog) : auditLog[i] # EntryOf(h[p].req)

\* a remove with the namespace "*" was answered 400 while the record P1 and
\* the audit log are as at the start
C19_Witness ==
  \E p \in Procs :
    /\ h[p].pc = "done" /\ h[p].req.op = "remove"
    /\ h[p].req.key = ConfiguredKey
    /\ h[p].req.dest.namespace = "*"
    /\ h[p].status = 400 /\ h[p].nfetch = 0
    /\ store[P1].rv = 1 /\ auditLog = <<>>

\* C20: every request to a destinations route whose X-API-Key header is
\* missing or differs from the configured key is answered 401 and the handler
\* is not run (no GET, no PATCH, no audit record); a request answered
\* anything else without the configured key is a request to /health.
C20_KeyRequired ==
  \A p \in Procs :
    /\ (h[p].pc # "idle" /\ h[p].req.route = "dest"
        /\ h[p].req.key # ConfiguredKey)
       => /\ h[p].pc = "done"
          /\ h[p].status = 401
          /\ h[p].nfetch = 0 /\ h[p].npatch = 0 /\ ~h[p].wrote
          /\ h[p].logged = <<>>
    /\ (h[p].pc # "idle" /\ h[p].req.key # ConfiguredKey /\ h[p].status # 401)
       => /\ h[p].req.route = "health"
          /\ h[p].pc = "done" /\ h[p].status = 200
          /\ h[p].nfetch = 0

\* an add without a key was answered 401 and a health check without a key 200
C20_Witness ==
  \E p, q \in Procs :
    /\ h[p].pc = "done" /\ h[p].req.op = "add" /\ h[p].req.key = ""
    /\ h[p].status = 401 /\ h[p].nfetch = 0
    /\ h[q].pc = "done" /\ h[q].req.route = "health" /\ h[q].req.key = ""
    /\ h[q].status = 200


\* C21: calls on different records are independent.  A step changes a record
\* only when it is the committed PATCH of a handler whose request names that
\* record, a GET changes no record, and a PATCH is answered Conflict only when
\* the record its request names has changed since its own GET.
C21_RecordsIndependent ==
  [][/\ \A n \in DOMAIN store :
          store'[n] # store[n] =>
            \E p \in Procs :
              /\ PatchStep(p) /\ h[p].req.project = n
              /\ h[p].req.op \in {"add", "remove"}
     /\ \A p \in Procs :
          /\ FetchStep(p) => store' = store
          /\ (PatchStep(p) /\ h'[p].err = "Conflict") =>
               store[h[p].req.project].rv # h[p].rv]_vars

\* an add on P2 that was fetched before a commit on P1 was committed as well
C21_Witness ==
  \E p, q \in Procs :
    /\ h[p].req.project = P1 /\ h[p].wrote
    /\ h[q].req.project = P2 /\ h[q].wrote /\ h[q].status = 201
    /\ h[q].rv = 1
    /\ store[P1].rv = 2 /\ store[P2].rv = 2


\* the raw element e is the JSON object of the destination d
IsJsonOf(e, d) ==
  /\ ~e.junk
  /\ e.server = d.server
  /\ e.namespace = d.namespace
  /\ e.name = d.name \/ (d.name = "" /\ e.name = NoStr)

\* C22: when an add needs a real change, the PATCH it builds and sends
\* carries the resourceVersion its own GET returned and, as the new list, the
\* fetched destinations in their fetched order followed by the new
\* destination.
C22_AddPatchAppends ==
  [][\A p \in Procs :
       /\ (FetchStep(p) /\ h[p].req.op = "add" /\ h'[p].pc = "patch") =>
            LET b == h'[p].body
                f == h'[p].fetched
            IN /\ b.rv = store[h[p].req.project].rv
               /\ ~b.null
               /\ Len(b.list) = Len(f) + 1
               /\ \A i \in 1..Len(f) : IsJsonOf(b.list[i], f[i])
               /\ IsJsonOf(b.list[Len(f) + 1], h[p].req.dest)
               /\ h'[p].npatch = 0
       /\ (PatchStep(p) /\ h[p].req.op = "add") =>
            /\ h'[p].body = h[p].body
            /\ h'[p].npatch = 1
            /\ h'[p].wrote =>
                 /\ store[h[p].req.project].rv = h[p].body.rv
                 /\ store'[h[p].req.project].obj.list = h[p].body.list]_vars

\* the add of {b, ns2} that fetched [{a, ns1}] at version 1 is about to send
\* the list [{a, ns1}, {b, ns2}] with the version 1
C22_Witness ==
  \E p \in Procs :
    /\ h[p].pc = "patch" /\ h[p].req.op = "add" /\ h[p].req.dest = DB
    /\ h[p].fetched = <<DA>> /\ h[p].rv = 1
    /\ h[p].body.rv = 1
    /\ h[p].body.list =
         <<[junk |-> FALSE, server |-> "a", namespace |-> "ns1", name |-> NoStr],
           [junk |-> FALSE, server |-> "b", namespace |-> "ns2", name |-> NoStr]>>


\* the list handler hp passed to patchDestinations: the fetched destinations
\* with the one of the request appended, or without those equal to it
NewDestinations(hp) ==
  IF hp.req.op = "add" THEN hp.fetched \o <<hp.req.dest>>
  ELSE SelectSeq(hp.fetched, LAMBDA x : x # hp.req.dest)

\* the committed PATCH of handler p is the latest write of its record
LatestWrite(p) ==
  /\ h[p].wrote
  /\ Present(h[p].req.project)
  /\ store[h[p].req.project].rv = h[p].rv + 1

\* C23: a committed PATCH replaces the stored destinations in full.  A GET of
\* the record that follows the commit with no write in between returns
\* without error exactly the list that was passed to patchDestinations, in
\* the same order, also when that list is empty because the remove dropped
\* the only destination.
C23_PatchReplacesInFull ==
  [][\A p, q \in Procs :
       (/\ p # q
        /\ LatestWrite(p)
        /\ FetchStep(q)
        /\ h[q].req.project = h[p].req.project)
       => /\ h'[q].err # "Extract"
          /\ h'[q].fetched = NewDestinations(h[p])
          /\ h'[q].rv = h[p].rv + 1]_vars

\* a remove dropped the only destination, the add that followed fetched the
\* empty list and was committed
C23_Witness ==
  \E p, q \in Procs :
    /\ h[p].req.op = "remove" /\ h[p].wrote
    /\ h[p].fetched = <<DA>> /\ h[p].req.dest = DA
    /\ h[q].req.op = "add" /\ h[q].wrote /\ h[q].status = 201
    /\ h[q].rv = h[p].rv + 1
    /\ h[q].fetched = <<>>
    /\ Stored(P1) = <<h[q].req.dest>>


\* the destinations a and b have the same server, namespace and name
SameThree(a, b) ==
  a.server = b.server /\ a.namespace = b.namespace /\ a.name = b.name

\* the destinations a and b differ in the name alone
NameApart(a, b) ==
  a.server = b.server /\ a.namespace = b.namespace /\ a.name # b.name

\* C24: presence is equality of server, namespace and name.  An add returns
\* without a PATCH only if a fetched destination equals the requested one in
\* all three fields; the list a remove sends holds, in order, the fetched
\* destinations that differ from the requested one in some field, so a
\* destination that differs in the name alone is kept; and a remove returns
\* without a PATCH when no fetched destination equals the requested one in
\* all three fields.
C24_StructuralEquality ==
  [][\A p \in Procs :
       (FetchStep(p) /\ h'[p].geterr = "nil" /\ h'[p].err # "Extract") =>
         LET f == h'[p].fetched
             d == h[p].req.dest
             held == \E i \in 1..Len(f) : SameThree(f[i], d)
             rest == SelectSeq(f, LAMBDA x : ~SameThree(x, d))
             b == h'[p].body
         IN /\ h[p].req.op = "add" =>
                 (h'[p].pc = "audit" <=> held) /\ (h'[p].pc = "patch" <=> ~held)
            /\ h[p].req.op = "remove" =>
                 /\ h'[p].pc = "audit" <=> ~held
                 /\ h'[p].pc = "patch" <=> held
                 /\ h'[p].pc = "patch" =>
                      /\ b.null <=> rest = <<>>
                      /\ Len(b.list) = Len(rest)
                      /\ \A i \in 1..Len(rest) : IsJsonOf(b.list[i], rest[i])
                      /\ \A i \in 1..Len(f) :
                           NameApart(f[i], d) =>
                             \E j \in 1..Len(b.list) : IsJsonOf(b.list[j], f[i])]_vars

\* the add of a destination that differs in the name alone from the stored
\* one was committed, and both are stored
C24_Witness ==
  \E p \in Procs :
    /\ h[p].req.op = "add" /\ h[p].wrote
    /\ h[p].fetched = <<DA>> /\ h[p].req.dest = DAx
    /\ NameApart(DA, DAx)
    /\ Present(P1) /\ Stored(P1) = <<DA, DAx>>


\* the goroutines inside the critical section of Logger.Log in handlers hs
Logging(hs) == { p \in Procs : hs[p].pc = "logging" }

\* C25: calls of Logger.Log exclude each other between Lock and Unlock: at
\* most one goroutine is inside at a time; every step that changes the log
\* is the return of one Log call that appends the one complete entry of its
\* request at the end; the log only grows, its earlier entries staying as
\* they are.
C25_LogIsExclusive ==
  [][/\ Cardinality(Logging(h')) <= 1
     /\ Len(auditLog') >= Len(auditLog)
     /\ SubSeq(auditLog', 1, Len(auditLog)) = auditLog
     /\ auditLog' # auditLog =>
          \E p \in Procs :
            /\ h[p].pc = "logging" /\ h'[p].pc = "done"
            /\ \A q \in Procs \ {p} : h'[q] = h[q]
            /\ auditLog' = Append(auditLog, EntryOf(h[p].req))
            /\ h'[p].logged = <<EntryOf(h[p].req)>>]_vars

\* one Log call has returned and written its entry, the other goroutine has
\* locked the mutex after it
C25_Witness ==
  \E p, q \in Procs :
    /\ p # q
    /\ h[p].pc = "done" /\ Len(h[p].logged) = 1 /\ auditLog = h[p].logged
    /\ h[q].pc = "logging" /\ h[q].logged = <<>>


\* no two elements of the sequence ds are equal
NoDuplicates(ds) ==
  \A i, j \in 1..Len(ds) : i # j => ds[i] # ds[j]

\* C26: starting from records without two equal destinations and with the
\* handlers as the only writers, no interleaving of adds and removes, adds
\* of the same destination at the same time and retries after 409 included,
\* leaves a record with two equal destinations.
C26_NoDuplicates ==
  \A n \in DOMAIN store :
    /\ store[n].obj.spec = "map" /\ store[n].obj.dests \in {"list", "absent"}
    /\ NoDuplicates(store[n].obj.list)
    /\ NoDuplicates(Stored(n))
    /\ Len(Stored(n)) = Len(store[n].obj.list)

\* two adds of the same destination ran at the same time: one was committed,
\* the other was answered 409, and the destination is stored once
C26_Witness ==
  \E p, q \in Procs :
    /\ p # q
    /\ h[p].req.op = "add" /\ h[q].req.op = "add"
    /\ h[p].req.project = P1 /\ h[q].req.project = P1
    /\ h[p].req.dest = h[q].req.dest
    /\ h[p].wrote /\ h[q].status = 409
    /\ Len(SelectSeq(Stored(P1), LAMBDA x : x = h[p].req.dest)) = 1


\* C27: when the record, still existing, was written by anyone since the GET
\* of a handler (its resourceVersion is no longer the fetched one), the PATCH
\* of that handler is answered Conflict, also when the write left the
\* destinations as they were, and the record stays as the other writer left
\* it.
C27_AnyWriteConflicts ==
  [][\A p \in Procs :
       (/\ PatchStep(p)
        /\ Present(h[p].req.project)
        /\ store[h[p].req.project].rv # h[p].rv)
       => /\ h'[p].patcherr = "Conflict"
          /\ h'[p].err = "Conflict"
          /\ h'[p].status = 409
          /\ ~h'[p].wrote
          /\ store' = store
          /\ commits' = commits]_vars

\* a handler was answered 409 after another writer changed a field outside
\* spec and left the destinations as fetched
C27_Witness ==
  \E p \in Procs :
    /\ h[p].pc = "done" /\ h[p].err = "Conflict" /\ h[p].status = 409
    /\ next = 1 /\ commits = 0
    /\ store[P1].exists /\ store[P1].other = 1
    /\ store[P1].rv = h[p].rv + 1
    /\ Stored(P1) = h[p].fetched


\* C28: listing is read-only.  A list request sends one GET, no PATCH and
\* passes nothing to Logger.Log; the step in which its GET is answered
\* changes neither the store nor the audit log nor another handler, so a
\* handler between its GET and its PATCH that held the current
\* resourceVersion still holds it.
C28_ListIsReadOnly ==
  [][\A p \in Procs :
       /\ h'[p].req.op = "list" =>
            /\ h'[p].pc \in {"fetch", "done"}
            /\ h'[p].nfetch = IF h'[p].pc = "done" THEN 1 ELSE 0
            /\ h'[p].npatch = 0 /\ ~h'[p].wrote
            /\ h'[p].logged = <<>>
       /\ (FetchStep(p) /\ h[p].req.op = "list") =>
            /\ store' = store
            /\ auditLog' = auditLog
            /\ commits' = commits
            /\ \A q \in Procs \ {p} :
                 /\ h'[q] = h[q]
                 /\ (h[q].pc = "patch" /\ Present(h[q].req.project)
                     /\ store[h[q].req.project].rv = h[q].rv)
                    => store'[h[q].req.project].rv = h'[q].rv]_vars

\* a list was answered at the version at which an add fetched, and the add
\* was committed
C28_Witness ==
  \E p, q \in Procs :
    /\ h[p].req.op = "list" /\ h[p].pc = "done" /\ h[p].status = 200
    /\ h[p].nfetch = 1 /\ h[p].fetched = <<DA>>
    /\ h[q].req.op = "add" /\ h[q].wrote /\ h[q].status = 201
    /\ h[q].rv = h[p].rv
    /\ auditLog = h[q].logged


\* handler p takes the step in which its PATCH is committed
CommitStep(p) == PatchStep(p) /\ h'[p].wrote

\* C29: a committed add or remove rewrites the stored destinations to the
\* list it computed from the parsed one: after the commit the raw list is
\* the JSON of the fetched destinations plus or minus the requested one and
\* holds none of the elements that the GET skipped; an add or remove that
\* returns without a PATCH leaves the raw list as it is, and so does every
\* other step of a handler.
C29_CommitRewritesParsed ==
  [][/\ \A p \in Procs :
          /\ CommitStep(p) =>
               LET raw == store'[h[p].req.project].obj.list
                   new == NewDestinations(h[p])
               IN /\ Len(raw) = Len(new)
                  /\ \A i \in 1..Len(raw) : IsJsonOf(raw[i], new[i])
                  /\ store'[h[p].req.project].obj.spec = "map"
                  /\ store'[h[p].req.project].obj.dests =
                       IF new = <<>> THEN "absent" ELSE "list"
          /\ (FetchStep(p) /\ h'[p].pc = "audit") =>
               /\ store' = store
               /\ h'[p].npatch = 0
     /\ \A n \in DOMAIN store :
          store'[n].obj # store[n].obj =>
            \/ next' # next
            \/ \E p \in Procs : CommitStep(p) /\ h[p].req.project = n]_vars

\* an add that fetched one destination from a raw list of two elements, one
\* of them not an object, was committed: the raw list now holds the two
\* objects of the computed list
C29_Witness ==
  \E p \in Procs :
    /\ h[p].req.op = "add" /\ h[p].wrote /\ h[p].req.dest = DB
    /\ h[p].fetched = <<[server |-> "b", namespace |-> "", name |-> ""]>>
    /\ store[P1].rv = h[p].rv + 1
    /\ Len(store[P1].obj.list) = 2
    /\ \A i \in 1..2 : ~store[P1].obj.list[i].junk
    /\ Stored(P1) = h[p].fetched \o <<DB>>

====
